---------------------------- MODULE Spec2Model ----------------------------
(***************************************************************************)
(* A model of passport-processor (src/main.py): the flattening and         *)
(* tabulation of an extraction result, and the Streamlit session (extract  *)
(* button, history page, clear button) that uses them.                     *)
(*                                                                         *)
(* Python values are tagged records:                                       *)
(*   None -> [t |-> "null"]          str  -> [t |-> "str",  s |-> ...]     *)
(*   int  -> [t |-> "num", n |-> ..] bool -> [t |-> "bool", b |-> ...]     *)
(*   dict -> [t |-> "dict", items |-> <<[k |-> key, v |-> value], ...>>]   *)
(*           (insertion order kept, keys distinct)                         *)
(*   list -> [t |-> "list", elems |-> <<value, ...>>]                      *)
(*   an SDK response object that is no JSON value -> [t |-> "obj"]         *)
(* A pandas DataFrame is [cols |-> <<label, ...>>, rows |-> <<row, ...>>], *)
(* a row being a function from the column labels to cells; a cell the row  *)
(* has no value for is NaN.  Integer column labels are written by their    *)
(* decimal text ("0").                                                     *)
(* pandas' dtype inference is not modelled: a cell holds the Python value  *)
(* it was given.  A list whose first element is itself a list is outside   *)
(* the inputs explored, and pd_DataFrame is not defined on it.             *)
(***************************************************************************)
EXTENDS Integers, Sequences, FiniteSets, TLC

VARIABLES
    extraction_history,  \* st.session_state.extraction_history
    current_extraction,  \* st.session_state.current_extraction
    page,                \* the page chosen in the sidebar
    temp_files,          \* temporary files that exist on disk
    last,                \* what the last user action did (observation record)
    saved,               \* tables handed to save_extraction_to_history since the last clear
    fn_pc,               \* position of the pure-function harness
    fn_arg,              \* the argument given to format_extraction_data
    fn_ret               \* what format_extraction_data returned

vars == <<extraction_history, current_extraction, page, temp_files, last, saved,
          fn_pc, fn_arg, fn_ret>>

sessionVars == <<extraction_history, current_extraction, page, temp_files, last, saved>>
fnVars == <<fn_pc, fn_arg, fn_ret>>

---------------------------------------------------------------------------
(* Bounds *)

MaxListLen == 2     \* longest top-level list of records drawn as an input
MaxHistory == 2     \* longest history explored
MaxTempFiles == 1   \* most leaked temporary files explored

---------------------------------------------------------------------------
(* Python values *)

None == [t |-> "null"]
Str(s) == [t |-> "str", s |-> s]
Num(n) == [t |-> "num", n |-> n]
Bool(b) == [t |-> "bool", b |-> b]
Dict(items) == [t |-> "dict", items |-> items]
List(elems) == [t |-> "list", elems |-> elems]
Obj == [t |-> "obj"]
NaN == [t |-> "nan"]

KV(k, v) == [k |-> k, v |-> v]

IsDict(v) == v.t = "dict"
IsList(v) == v.t = "list"
IsStr(v) == v.t = "str"

\* Python truthiness: None, False, 0, "", {} and [] are falsy.
Truthy(v) ==
    CASE v.t = "null" -> FALSE
      [] v.t = "bool" -> v.b
      [] v.t = "num"  -> v.n # 0
      [] v.t = "str"  -> v.s # ""
      [] v.t = "dict" -> v.items # <<>>
      [] v.t = "list" -> v.elems # <<>>
      [] OTHER        -> TRUE

TypeName(v) ==
    CASE v.t = "null" -> "NoneType"
      [] v.t = "bool" -> "bool"
      [] v.t = "num"  -> "int"
      [] v.t = "str"  -> "str"
      [] v.t = "dict" -> "dict"
      [] v.t = "list" -> "list"
      [] OTHER        -> "ProcessorRunCreateResponse"

RECURSIVE JoinStrs(_, _)
JoinStrs(strs, sep) ==
    IF strs = <<>> THEN ""
    ELSE IF Len(strs) = 1 THEN strs[1]
    ELSE strs[1] \o sep \o JoinStrs(Tail(strs), sep)

\* repr(v), the text str() uses for the elements of a container
RECURSIVE PyRepr(_)
PyRepr(v) ==
    CASE v.t = "null" -> "None"
      [] v.t = "bool" -> IF v.b THEN "True" ELSE "False"
      [] v.t = "num"  -> ToString(v.n)
      [] v.t = "str"  -> "'" \o v.s \o "'"
      [] v.t = "dict" ->
            "{" \o JoinStrs([i \in DOMAIN v.items |->
                     "'" \o v.items[i].k \o "': " \o PyRepr(v.items[i].v)], ", ") \o "}"
      [] v.t = "list" ->
            "[" \o JoinStrs([i \in DOMAIN v.elems |-> PyRepr(v.elems[i])], ", ") \o "]"
      [] OTHER        -> "<response>"

\* str(v)
PyStr(v) == IF v.t = "str" THEN v.s ELSE PyRepr(v)

Keys(d) == [i \in DOMAIN d.items |-> d.items[i].k]
KeySet(d) == {d.items[i].k : i \in DOMAIN d.items}
HasKey(d, k) == k \in KeySet(d)
Get(d, k) == d.items[CHOOSE i \in DOMAIN d.items : d.items[i].k = k].v

\* d[k] = v on an insertion-ordered dict: a present key keeps its place
SetItem(items, k, v) ==
    IF \E i \in DOMAIN items : items[i].k = k
    THEN [i \in DOMAIN items |-> IF items[i].k = k THEN KV(k, v) ELSE items[i]]
    ELSE Append(items, KV(k, v))

\* dict(items) for a list of (key, value) pairs
RECURSIVE DictFromPairs(_, _)
DictFromPairs(pairs, acc) ==
    IF pairs = <<>> THEN acc
    ELSE DictFromPairs(Tail(pairs), SetItem(acc, Head(pairs).k, Head(pairs).v))

\* Outcome of a Python call: a returned value or a raised exception
Return(v) == [raised |-> FALSE, val |-> v]
Raise(msg) == [raised |-> TRUE, msg |-> msg]

---------------------------------------------------------------------------
(* _flatten_nested_dict, src/main.py 294-311 *)

sep == "_"

\* Mutant: a nested mapping is stored as it is instead of being flattened
FlattenItems_KeepsNested(kvs, parent_key) ==
    [i \in DOMAIN kvs |->
        LET v == kvs[i].v
            new_key == IF parent_key # "" THEN parent_key \o sep \o kvs[i].k ELSE kvs[i].k
        IN IF IsList(v) /\ v.elems # <<>>
           THEN IF \A j \in DOMAIN v.elems : IsStr(v.elems[j])
                THEN KV(new_key, Str(JoinStrs([j \in DOMAIN v.elems |-> v.elems[j].s], "; ")))
                ELSE KV(new_key, Str(PyStr(v)))
           ELSE KV(new_key, v)]

\* Mutant: the separator is put before the key also when there is no parent key
RECURSIVE FlattenItems_AlwaysPrefix(_, _)
FlattenItems_AlwaysPrefix(kvs, parent_key) ==
    IF kvs = <<>> THEN <<>>
    ELSE LET k == Head(kvs).k
             v == Head(kvs).v
             new_key == parent_key \o sep \o k
             here ==
                IF IsDict(v) /\ v.items # <<>>
                THEN DictFromPairs(FlattenItems_AlwaysPrefix(v.items, new_key), <<>>)
                ELSE IF IsList(v) /\ v.elems # <<>>
                THEN IF \A i \in DOMAIN v.elems : IsStr(v.elems[i])
                     THEN <<KV(new_key, Str(JoinStrs([i \in DOMAIN v.elems |-> v.elems[i].s], "; ")))>>
                     ELSE <<KV(new_key, Str(PyStr(v)))>>
                ELSE <<KV(new_key, v)>>
         IN here \o FlattenItems_AlwaysPrefix(Tail(kvs), parent_key)

\* the loop body of _flatten_nested_dict over data.items(), building `items`
RECURSIVE FlattenItems(_, _)
FlattenItems(kvs, parent_key) ==
    IF kvs = <<>> THEN <<>>
    ELSE LET k == Head(kvs).k
             v == Head(kvs).v
             new_key == IF parent_key # "" THEN parent_key \o sep \o k ELSE k
             here ==
                IF IsDict(v) /\ v.items # <<>>
                THEN DictFromPairs(FlattenItems(v.items, new_key), <<>>)
                ELSE IF IsList(v) /\ v.elems # <<>>
                THEN IF \A i \in DOMAIN v.elems : IsStr(v.elems[i])
                     THEN <<KV(new_key, Str(JoinStrs([i \in DOMAIN v.elems |-> v.elems[i].s], "; ")))>>
                     ELSE <<KV(new_key, Str(PyStr(v)))>>
                ELSE <<KV(new_key, v)>>
         IN here \o FlattenItems(Tail(kvs), parent_key)

\* Mutant: every flattened value is turned into its text
Flatten_Stringify(data, parent_key) ==
    IF ~IsDict(data)
    THEN Raise("'" \o TypeName(data) \o "' object has no attribute 'items'")
    ELSE LET flat == DictFromPairs(FlattenItems(data.items, parent_key), <<>>)
         IN Return(Dict([i \in DOMAIN flat |-> KV(flat[i].k, Str(PyStr(flat[i].v)))]))

\* data.items() raises AttributeError when data is no dict
_flatten_nested_dict(data, parent_key) ==
    IF ~IsDict(data)
    THEN Raise("'" \o TypeName(data) \o "' object has no attribute 'items'")
    ELSE Return(Dict(DictFromPairs(FlattenItems(data.items, parent_key), <<>>)))

---------------------------------------------------------------------------
(* pandas.DataFrame(list), as format_extraction_data calls it *)

EmptyDF == [cols |-> <<>>, rows |-> <<>>]

\* the union of the rows' keys, in first-seen order
RECURSIVE UniqueKeys(_, _)
UniqueKeys(ks, acc) ==
    IF ks = <<>> THEN acc
    ELSE UniqueKeys(Tail(ks),
                    IF \E i \in DOMAIN acc : acc[i] = Head(ks) THEN acc
                    ELSE Append(acc, Head(ks)))

RECURSIVE AllKeys(_)
AllKeys(dicts) ==
    IF dicts = <<>> THEN <<>> ELSE Keys(Head(dicts)) \o AllKeys(Tail(dicts))

ColSet(df) == {df.cols[i] : i \in DOMAIN df.cols}

\* DataFrame(data) for a list whose first element is not itself a list:
\*   - an empty list gives the empty frame;
\*   - a first element that is a dict takes the list-of-dicts path, which calls
\*     .keys() on every element and so raises on an element that is no dict;
\*     the columns are the union of the keys, a missing cell is NaN;
\*   - a first element that is a scalar gives one object column labelled 0
\*     holding the elements as they are.
pd_DataFrame(data) ==
    CASE data = <<>> -> Return(EmptyDF)
      [] data # <<>> /\ IsDict(data[1]) ->
            IF \E i \in DOMAIN data : ~IsDict(data[i])
            THEN LET bad == CHOOSE i \in DOMAIN data :
                               /\ ~IsDict(data[i])
                               /\ \A j \in 1..(i-1) : IsDict(data[j])
                 IN Raise("'" \o TypeName(data[bad]) \o "' object has no attribute 'keys'")
            ELSE LET cols == UniqueKeys(AllKeys(data), <<>>)
                     cs == {cols[i] : i \in DOMAIN cols}
                 IN Return([cols |-> cols,
                            rows |-> [i \in DOMAIN data |->
                                        [c \in cs |-> IF HasKey(data[i], c)
                                                      THEN Get(data[i], c) ELSE NaN]]])
      [] data # <<>> /\ ~IsDict(data[1]) /\ ~IsList(data[1]) ->
            Return([cols |-> <<"0">>,
                    rows |-> [i \in DOMAIN data |-> [c \in {"0"} |-> data[i]]]])

\* len(df)
DFLen(df) == Len(df.rows)

---------------------------------------------------------------------------
(* format_extraction_data, src/main.py 259-292 *)

OneRow(col, text) == pd_DataFrame(<<Dict(<<KV(col, Str(text))>>)>>)

\* the first exception raised by a sequence of calls, if any
FirstRaise(outs) ==
    outs[CHOOSE i \in DOMAIN outs : outs[i].raised /\ \A j \in 1..(i-1) : ~outs[j].raised]

\* Mutant: the elements of a list are tabulated as they are, not flattened
FormatBody_Unflattened(extraction_result) ==
    IF IsDict(extraction_result)
    THEN LET data == IF HasKey(extraction_result, "data")
                     THEN Get(extraction_result, "data")
                     ELSE extraction_result
         IN IF IsList(data)
            THEN IF \E i \in DOMAIN data.elems : ~IsDict(data.elems[i])
                 THEN Raise("'str' object has no attribute 'items'")
                 ELSE pd_DataFrame(data.elems)
            ELSE IF IsDict(data)
            THEN pd_DataFrame(<<_flatten_nested_dict(data, "").val>>)
            ELSE OneRow("extracted_data", PyStr(data))
    ELSE IF IsList(extraction_result)
    THEN pd_DataFrame(extraction_result.elems)
    ELSE OneRow("extracted_data", PyStr(extraction_result))

\* the body of the try block (lines 262-289)
FormatBody(extraction_result) ==
    IF IsDict(extraction_result)
    THEN LET data == IF HasKey(extraction_result, "data")
                     THEN Get(extraction_result, "data")
                     ELSE extraction_result
         IN IF IsList(data)
            THEN LET outs == [i \in DOMAIN data.elems |->
                                _flatten_nested_dict(data.elems[i], "")]
                 IN IF \E i \in DOMAIN outs : outs[i].raised
                    THEN FirstRaise(outs)
                    ELSE pd_DataFrame([i \in DOMAIN outs |-> outs[i].val])
            ELSE IF IsDict(data)
            THEN pd_DataFrame(<<_flatten_nested_dict(data, "").val>>)
            ELSE OneRow("extracted_data", PyStr(data))
    ELSE IF IsList(extraction_result)
    THEN pd_DataFrame([i \in DOMAIN extraction_result.elems |->
                          LET item == extraction_result.elems[i]
                          IN IF IsDict(item) THEN _flatten_nested_dict(item, "").val
                             ELSE item])
    ELSE OneRow("extracted_data", PyStr(extraction_result))

\* Mutant: no try/except around the body, a failure reaches the caller
Format_NoExcept(extraction_result) ==
    LET body == FormatBody(extraction_result)
    IN IF body.raised
       THEN [raised |-> TRUE, df |-> EmptyDF, st_errors |-> 0]
       ELSE [raised |-> FALSE, df |-> body.val, st_errors |-> 0]

\* Mutant: the fallback column holds repr(data) instead of str(data)
Format_ReprFallback(extraction_result) ==
    LET data == IF IsDict(extraction_result) /\ HasKey(extraction_result, "data")
                THEN Get(extraction_result, "data") ELSE extraction_result
        body == IF ~IsDict(data) /\ ~IsList(data)
                THEN OneRow("extracted_data", PyRepr(data))
                ELSE FormatBody(extraction_result)
    IN IF body.raised
       THEN [raised |-> FALSE, df |-> OneRow("error", body.msg).val, st_errors |-> 1]
       ELSE [raised |-> FALSE, df |-> body.val, st_errors |-> 0]

\* What a call of format_extraction_data does: whether it raised to its caller,
\* the frame it returned, and how many times it called st.error.
format_extraction_data(extraction_result) ==
    LET body == FormatBody(extraction_result)
    IN IF body.raised
       THEN [raised |-> FALSE, df |-> OneRow("error", body.msg).val, st_errors |-> 1]
       ELSE [raised |-> FALSE, df |-> body.val, st_errors |-> 0]

---------------------------------------------------------------------------
(* convert_df_to_json, src/main.py 327-329 *)

\* Mutant: a cell the row has no value for is left out of the row's object
ToJson_DropMissing(df) ==
    List([i \in DOMAIN df.rows |->
            Dict(SelectSeq([j \in DOMAIN df.cols |-> KV(df.cols[j], df.rows[i][df.cols[j]])],
                           LAMBDA kv : kv.v # NaN))])

\* df.to_json(orient='records', indent=2), as the JSON document the text denotes:
\* an array with one object per row, each object having every column as a key,
\* NaN written as null.  The layout of the text is not modelled.
convert_df_to_json(df) ==
    List([i \in DOMAIN df.rows |->
            Dict([j \in DOMAIN df.cols |->
                    LET cell == df.rows[i][df.cols[j]]
                    IN KV(df.cols[j], IF cell = NaN THEN None ELSE cell)])])

---------------------------------------------------------------------------
(* The inputs format_extraction_data is applied to *)

JSONKeys == {"data", "a", "b"}

TopScalars == {None, Str("invalid_data"), Num(1), Bool(TRUE)}
LeafScalars == {None, Str("Doe"), Num(1)}

\* values a record holds that are not themselves non-empty mappings
FlatVals ==
    LeafScalars \cup
    { Dict(<<>>), List(<<>>),
      List(<<Str("John"), Str("William")>>),
      List(<<Str("John"), Num(1)>>) }

\* non-empty mappings a record holds as values
NestedVals ==
    { Dict(<<KV("b", Str("Doe"))>>),
      Dict(<<KV("data", Num(1))>>),
      Dict(<<KV("a", None), KV("b", List(<<Str("John"), Str("William")>>))>>),
      Dict(<<KV("a", Dict(<<KV("b", Str("Doe"))>>))>>) }

DictVals == FlatVals \cup NestedVals

\* mappings of at most two keys, in either insertion order
Records ==
    {Dict(<<>>)} \cup
    {Dict(<<KV(k, v)>>) : k \in JSONKeys, v \in DictVals} \cup
    {Dict(<<KV(kk[1], v1), KV(kk[2], v2)>>) :
        kk \in {x \in JSONKeys \X JSONKeys : x[1] # x[2]}, v1 \in DictVals, v2 \in DictVals}

\* the elements of a top-level list: records with differing key sets, and
\* elements that are no mapping
RowElems ==
    { Dict(<<KV("a", Str("Doe")), KV("b", Num(1))>>),
      Dict(<<KV("b", Str("Smith"))>>),
      Dict(<<KV("a", Dict(<<KV("b", Str("Doe"))>>))>>),
      Dict(<<>>),
      Str("invalid_data"),
      None }

SeqsUpTo(S, n) == UNION {[1..m -> S] : m \in 0..n}

RowLists == {List(es) : es \in SeqsUpTo(RowElems, MaxListLen)}

Unwrapped == TopScalars \cup Records \cup RowLists

\* mappings that wrap a value under the key `data`, alone or beside another key
Wrapped ==
    {Dict(<<KV("data", v)>>) : v \in Unwrapped} \cup
    {Dict(<<KV("data", v), KV("a", Str("Doe"))>>) : v \in Unwrapped} \cup
    {Dict(<<KV("a", Str("Doe")), KV("data", v)>>) : v \in Unwrapped}

Inputs == Unwrapped \cup Wrapped

---------------------------------------------------------------------------
(* State *)

NoRet == [raised |-> FALSE, df |-> EmptyDF, st_errors |-> 0]
NoAction == [kind |-> "none"]

SessionInit ==
    /\ extraction_history = <<>>      \* lines 111-112
    /\ current_extraction = None      \* lines 114-115
    /\ page = "Extract Passport"      \* first option of the selectbox, line 362
    /\ temp_files = {}
    /\ last = NoAction
    /\ saved = <<>>

(* The pure-function harness: one call of format_extraction_data on an input *)

FmtInit ==
    /\ SessionInit
    /\ fn_pc = "call"
    /\ fn_arg \in Inputs
    /\ fn_ret = NoRet

CallFormat ==
    /\ fn_pc = "call"
    /\ fn_ret' = format_extraction_data(fn_arg)
    /\ fn_pc' = "done"
    /\ UNCHANGED <<fn_arg, sessionVars>>

\* convert_df_to_json applied to the frame format_extraction_data returned
CallToJson ==
    /\ fn_pc = "done"
    /\ fn_ret' = [raised |-> fn_ret.raised, df |-> fn_ret.df,
                  st_errors |-> fn_ret.st_errors, json |-> convert_df_to_json(fn_ret.df)]
    /\ fn_pc' = "json"
    /\ UNCHANGED <<fn_arg, sessionVars>>

FmtNext == CallFormat \/ CallToJson

FmtSpec == FmtInit /\ [][FmtNext]_vars

(* The pure-function harness for _flatten_nested_dict: the function is applied *)
(* to a mapping, and then to its own result.                                  *)

\* mappings in which a nested path and a top-level key give the same compound key
CollisionRecords ==
    {Dict(<<KV("a", Dict(<<KV("b", v)>>)), KV("a_b", w)>>) : v \in FlatVals, w \in FlatVals}
    \cup
    {Dict(<<KV("a_b", w), KV("a", Dict(<<KV("b", v)>>))>>) : v \in FlatVals, w \in FlatVals}

FlattenInputs == Records \cup CollisionRecords

FlatInit ==
    /\ SessionInit
    /\ fn_pc = "flatten"
    /\ fn_arg \in FlattenInputs
    /\ fn_ret = NoRet

CallFlatten ==
    /\ fn_pc = "flatten"
    /\ fn_ret' = _flatten_nested_dict(fn_arg, "")
    /\ fn_pc' = "flattened"
    /\ UNCHANGED <<fn_arg, sessionVars>>

\* _flatten_nested_dict applied to the mapping it returned; `first` keeps that mapping
CallFlattenAgain ==
    /\ fn_pc = "flattened"
    /\ ~fn_ret.raised
    /\ LET again == _flatten_nested_dict(fn_ret.val, "")
       IN fn_ret' = [raised |-> again.raised, val |-> again.val, first |-> fn_ret.val]
    /\ fn_pc' = "reflattened"
    /\ UNCHANGED <<fn_arg, sessionVars>>

FlatNext == CallFlatten \/ CallFlattenAgain

FlatSpec == FlatInit /\ [][FlatNext]_vars

---------------------------------------------------------------------------
(* extract_passport_data, src/main.py 129-257 *)

FileIds == {"file_1", "file_2"}

\* what client.file.upload does: raise, or return a response carrying a file id
UploadOutcomes == {[ok |-> FALSE]} \cup {[ok |-> TRUE, id |-> f] : f \in FileIds}

\* the values a processor run's output can hold
GatewayValues ==
    { Dict(<<KV("a", Str("Doe")), KV("b", List(<<Str("John"), Str("William")>>))>>),
      Dict(<<KV("data", List(<<Dict(<<KV("a", Str("Doe"))>>),
                               Dict(<<KV("b", Dict(<<KV("a", Str("Smith"))>>))>>)>>))>>),
      Dict(<<KV("data", List(<<Str("invalid_data")>>))>>),
      Dict(<<>>),
      List(<<>>) }

\* what client.processor_run.create does: raise, return a response whose
\* processor_run.output.value is a value, or return a response without those
\* attributes
RunOutcomes ==
    {[kind |-> "raise"], [kind |-> "bare"]} \cup
    {[kind |-> "output", value |-> v] : v \in GatewayValues}

\* Mutant: a failure is swallowed, an empty mapping is returned and nothing reported
Extract_SwallowFailure(upload, run) ==
    IF ~upload.ok
    THEN [result |-> Dict(<<>>), st_errors |-> 0, calls |-> <<[op |-> "upload"]>>]
    ELSE LET calls == <<[op |-> "upload"], [op |-> "run", file_id |-> upload.id]>>
         IN CASE run.kind = "raise"  -> [result |-> Dict(<<>>), st_errors |-> 0, calls |-> calls]
              [] run.kind = "output" -> [result |-> run.value, st_errors |-> 0, calls |-> calls]
              [] run.kind = "bare"   -> [result |-> Obj, st_errors |-> 0, calls |-> calls]

\* Mutant: the processor run is given a fixed file id, not the uploaded file's
Extract_FixedFileId(upload, run) ==
    IF ~upload.ok
    THEN [result |-> None, st_errors |-> 1, calls |-> <<[op |-> "upload"]>>]
    ELSE LET calls == <<[op |-> "upload"], [op |-> "run", file_id |-> "file_1"]>>
         IN CASE run.kind = "raise"  -> [result |-> None, st_errors |-> 1, calls |-> calls]
              [] run.kind = "output" -> [result |-> run.value, st_errors |-> 0, calls |-> calls]
              [] run.kind = "bare"   -> [result |-> Obj, st_errors |-> 0, calls |-> calls]

\* The value returned, the number of st.error calls, and the gateway calls made,
\* in order.  An exception of either call is caught at line 255.
extract_passport_data(upload, run) ==
    IF ~upload.ok
    THEN [result |-> None, st_errors |-> 1, calls |-> <<[op |-> "upload"]>>]
    ELSE LET file_id == upload.id
             calls == <<[op |-> "upload"], [op |-> "run", file_id |-> file_id]>>
         IN CASE run.kind = "raise"  -> [result |-> None, st_errors |-> 1, calls |-> calls]
              [] run.kind = "output" -> [result |-> run.value, st_errors |-> 0, calls |-> calls]
              [] run.kind = "bare"   -> [result |-> Obj, st_errors |-> 0, calls |-> calls]

---------------------------------------------------------------------------
(* save_extraction_to_history, src/main.py 313-321 *)

\* the reading of datetime.now(), to the second; the session's behaviour does
\* not depend on it, and one reading stands for all
Timestamps == {"2025-01-01 10:00:00"}

\* Mutant: the entry is inserted at the front
Save_Prepend(history, extraction_data, filename, now) ==
    <<[timestamp |-> now, filename |-> filename, data |-> extraction_data,
       record_count |-> DFLen(extraction_data)]>> \o history

\* Mutant: record_count counts the columns, not the rows
Save_CountsColumns(history, extraction_data, filename, now) ==
    Append(history, [timestamp |-> now, filename |-> filename, data |-> extraction_data,
                     record_count |-> Len(extraction_data.cols)])

\* the history after the call
save_extraction_to_history(history, extraction_data, filename, now) ==
    LET history_entry == [timestamp    |-> now,
                          filename     |-> filename,
                          data         |-> extraction_data,
                          record_count |-> DFLen(extraction_data)]
    IN Append(history, history_entry)

---------------------------------------------------------------------------
(* The session: src/main.py 359-527 *)

Pages == {"Extract Passport", "Extraction History", "Settings"}
FileNames == {"passport.pdf", "scan.png"}
ProcessorIds == {"", "dp_jT1DNo-oQE5mhdB5YqUcO"}

\* json.dumps raises TypeError on a value that is no JSON value
JsonSerializable(v) == v.t # "obj"

\* the name tempfile gives the new file: one no existing file has
FreshTemp == CHOOSE n \in 1..(MaxTempFiles + 1) : n \notin temp_files

\* The inputs of one click.  An input the handler does not read on the path
\* taken (the gateway after a failed write, the clock when nothing is saved) is
\* pinned to one value, so that each path is taken once.
ExtractInputs ==
    LET noUpload == [ok |-> FALSE]
        noRun == [kind |-> "raise"]
        t0 == CHOOSE t \in Timestamps : TRUE
        all == [uploaded_file : FileNames, processor_id : ProcessorIds,
                write_ok : BOOLEAN, upload : UploadOutcomes, run : RunOutcomes,
                now : Timestamps]
        gatewayRead(i) == i.processor_id # "" /\ i.write_ok
        runRead(i) == gatewayRead(i) /\ i.upload.ok
        clockRead(i) == runRead(i) /\ i.run.kind # "raise"
                        /\ (i.run.kind = "output" => Truthy(i.run.value))
    IN {i \in all :
          /\ (i.processor_id = "" => i.write_ok)
          /\ (~gatewayRead(i) => i.upload = noUpload)
          /\ (~runRead(i) => i.run = noRun)
          /\ (~clockRead(i) => i.now = t0)}

\* The extract button handler, lines 425-487.  The button is rendered on the
\* Extract page once a file is chosen and a client exists (lines 395-411).
ExtractClick(uploaded_file, processor_id, write_ok, upload, run, now) ==
    /\ page = "Extract Passport"
    /\ IF processor_id = ""
       THEN \* lines 426-428: st.error, st.stop
            /\ last' = [kind |-> "extract", outcome |-> "no_processor_id",
                        gateway |-> "not_called", upload |-> upload, run |-> run,
                        st_errors |-> 1, calls |-> <<>>,
                        result |-> None, tabulated |-> FALSE, format_failed |-> FALSE,
                        appended |-> FALSE, exported |-> FALSE]
            /\ UNCHANGED <<extraction_history, current_extraction, temp_files, saved>>
       ELSE IF ~write_ok
       THEN \* lines 431-433: the write raises inside the with block, which closes
            \* the file (delete=False) and lets the exception out before the try
            /\ Cardinality(temp_files) < MaxTempFiles
            /\ temp_files' = temp_files \cup {FreshTemp}
            /\ last' = [kind |-> "extract", outcome |-> "write_failed",
                        gateway |-> "not_called", upload |-> upload, run |-> run,
                        st_errors |-> 0, calls |-> <<>>,
                        result |-> None, tabulated |-> FALSE, format_failed |-> FALSE,
                        appended |-> FALSE, exported |-> FALSE]
            /\ UNCHANGED <<extraction_history, current_extraction, saved>>
       ELSE LET ex == extract_passport_data(upload, run)
                extraction_result == ex.result
                gateway == IF ~upload.ok THEN "upload_failed"
                           ELSE IF run.kind = "raise" THEN "run_failed" ELSE "returned"
            IN IF ~Truthy(extraction_result)
               THEN \* line 439 is false; finally removes the file
                    /\ last' = [kind |-> "extract", outcome |-> "no_result",
                                gateway |-> gateway, upload |-> upload, run |-> run,
                                st_errors |-> ex.st_errors,
                                calls |-> ex.calls, result |-> extraction_result,
                                tabulated |-> FALSE, format_failed |-> FALSE,
                                appended |-> FALSE, exported |-> FALSE]
                    /\ UNCHANGED <<extraction_history, current_extraction, temp_files, saved>>
               ELSE LET fmt == format_extraction_data(extraction_result)
                        df == fmt.df
                    IN /\ current_extraction' = df
                       /\ extraction_history' =
                            save_extraction_to_history(extraction_history, df,
                                                       uploaded_file, now)
                       /\ Len(extraction_history') <= MaxHistory
                       /\ saved' = Append(saved, [filename |-> uploaded_file, data |-> df])
                       \* lines 457-482: the CSV and JSON exports, then
                       \* json.dumps(extraction_result); finally removes the file
                       /\ last' = [kind |-> "extract",
                                   outcome |-> IF JsonSerializable(extraction_result)
                                               THEN "done" ELSE "export_failed",
                                   gateway |-> gateway,
                                   upload |-> upload, run |-> run,
                                   st_errors |-> ex.st_errors + fmt.st_errors,
                                   calls |-> ex.calls, result |-> extraction_result,
                                   tabulated |-> TRUE,
                                   format_failed |-> FormatBody(extraction_result).raised,
                                   appended |-> TRUE,
                                   exported |-> JsonSerializable(extraction_result)]
                       /\ UNCHANGED temp_files
    /\ UNCHANGED <<page, fnVars>>

\* Mutant: clearing the history also forgets the current extraction
Clear_AlsoResetsCurrent ==
    /\ page = "Extraction History"
    /\ extraction_history # <<>>
    /\ extraction_history' = <<>>
    /\ current_extraction' = None
    /\ saved' = <<>>
    /\ last' = [kind |-> "clear"]
    /\ UNCHANGED <<page, temp_files, fnVars>>

\* The clear history button, lines 524-527; it is rendered only when the
\* history is not empty (line 492).
ClearHistory ==
    /\ page = "Extraction History"
    /\ extraction_history # <<>>
    /\ extraction_history' = <<>>
    /\ saved' = <<>>
    /\ last' = [kind |-> "clear"]
    /\ UNCHANGED <<current_extraction, page, temp_files, fnVars>>

\* The sidebar selectbox, lines 360-363: the script reruns on another page
Navigate(p) ==
    /\ p # page
    /\ page' = p
    /\ last' = [kind |-> "navigate"]
    /\ UNCHANGED <<extraction_history, current_extraction, temp_files, saved, fnVars>>

Init ==
    /\ SessionInit
    /\ fn_pc = "idle"
    /\ fn_arg = None
    /\ fn_ret = NoRet

Next ==
    \/ \E i \in ExtractInputs :
            ExtractClick(i.uploaded_file, i.processor_id, i.write_ok,
                         i.upload, i.run, i.now)
    \/ ClearHistory
    \/ \E p \in Pages : Navigate(p)

Spec == Init /\ [][Next]_vars

---------------------------------------------------------------------------
(* Claims about format_extraction_data, checked under FmtSpec *)

IsScalar(v) == v.t \in {"null", "str", "num", "bool"}

\* the value format_extraction_data tabulates: the value under `data`, or the input
Tabulated(arg) == IF IsDict(arg) /\ HasKey(arg, "data") THEN Get(arg, "data") ELSE arg

AllDicts(l) == \A i \in DOMAIN l.elems : IsDict(l.elems[i])
FlatOf(v) == _flatten_nested_dict(v, "").val

\* C1 (as stated): for every mapping with a `data` key, the table returned for the
\* mapping equals the table returned for the value under `data`.
C1_UnwrapEquivalence ==
    (fn_pc = "done" /\ IsDict(fn_arg) /\ HasKey(fn_arg, "data"))
        => fn_ret.df = format_extraction_data(Get(fn_arg, "data")).df

\* C2 (as stated): a non-empty mapping of scalars, whatever its keys, gives one row
\* whose columns are the keys and whose cells are the values.
FlatMapping(arg) ==
    /\ IsDict(arg)
    /\ arg.items # <<>>
    /\ \A i \in DOMAIN arg.items : IsScalar(arg.items[i].v)

OneRowOfInput(arg, df) ==
    /\ df.cols = Keys(arg)
    /\ DFLen(df) = 1
    /\ \A k \in KeySet(arg) : df.rows[1][k] = Get(arg, k)

C2_Original ==
    (fn_pc = "done" /\ FlatMapping(fn_arg)) => OneRowOfInput(fn_arg, fn_ret.df)

\* C2 (amended): a non-empty mapping of scalars that has no key named `data` gives
\* exactly one row whose columns are exactly the keys, in order, and whose cells are
\* the values unchanged; nothing is reported as an error.
C2_FlatMappingOneRow ==
    (fn_pc = "done" /\ FlatMapping(fn_arg) /\ ~HasKey(fn_arg, "data"))
        => /\ OneRowOfInput(fn_arg, fn_ret.df)
           /\ fn_ret.st_errors = 0

C2_Witness ==
    /\ fn_pc = "done"
    /\ FlatMapping(fn_arg) /\ ~HasKey(fn_arg, "data")
    /\ Len(fn_arg.items) = 2
    /\ DFLen(fn_ret.df) = 1

\* C3 (as stated): when the value tabulated is a list, the table has one row per
\* element, in order, a mapping element flattened and any other element passed
\* through, without a failure; for a list given directly and for one under `data`.
RowIsElement(row, elem) ==
    IF IsDict(elem)
    THEN \A k \in KeySet(FlatOf(elem)) :
            k \in DOMAIN row /\ row[k] = Get(FlatOf(elem), k)
    ELSE \E c \in DOMAIN row : row[c] = elem

C3_OneRowPerElement ==
    (fn_pc = "done" /\ IsList(Tabulated(fn_arg)))
        => LET elems == Tabulated(fn_arg).elems
           IN /\ fn_ret.st_errors = 0
              /\ DFLen(fn_ret.df) = Len(elems)
              /\ \A i \in DOMAIN elems : RowIsElement(fn_ret.df.rows[i], elems[i])

\* C4: format_extraction_data never raises; when its body fails it returns one row
\* with the single column `error` holding the error text and reports one error,
\* and it reports none otherwise.
C4_NeverRaises ==
    fn_pc = "done"
        => /\ ~fn_ret.raised
           /\ FormatBody(fn_arg).raised
                => /\ fn_ret.df.cols = <<"error">>
                   /\ DFLen(fn_ret.df) = 1
                   /\ fn_ret.df.rows[1]["error"] = Str(FormatBody(fn_arg).msg)
                   /\ fn_ret.st_errors = 1
           /\ ~FormatBody(fn_arg).raised => fn_ret.st_errors = 0

C4_Witness ==
    /\ fn_pc = "done"
    /\ FormatBody(fn_arg).raised
    /\ fn_ret.df.cols = <<"error">>

\* C5: an input, or a value under `data`, that is neither a mapping nor a list gives
\* one row with the single column `extracted_data` holding the value's text;
\* "invalid_data" gives the cell "invalid_data".
ScalarText(v) ==
    CASE v = None                -> "None"
      [] v = Str("invalid_data") -> "invalid_data"
      [] v = Str("Doe")          -> "Doe"
      [] v = Num(1)              -> "1"
      [] v = Bool(TRUE)          -> "True"

C5_ScalarFallback ==
    (fn_pc = "done" /\ ~IsDict(Tabulated(fn_arg)) /\ ~IsList(Tabulated(fn_arg)))
        => /\ fn_ret.df.cols = <<"extracted_data">>
           /\ DFLen(fn_ret.df) = 1
           /\ fn_ret.df.rows[1]["extracted_data"] = Str(ScalarText(Tabulated(fn_arg)))
           /\ fn_ret.st_errors = 0

C5_Witness ==
    /\ fn_pc = "done"
    /\ IsDict(fn_arg)
    /\ Tabulated(fn_arg) = Str("invalid_data")
    /\ fn_ret.df.cols = <<"extracted_data">>

\* C6: for a list of mappings the columns are exactly the union of the rows'
\* flattened keys, every row holds its own values and NaN in the columns it
\* lacks, and there is one row per mapping.
C6_UnionOfColumns ==
    (fn_pc = "done" /\ IsList(Tabulated(fn_arg)) /\ AllDicts(Tabulated(fn_arg)))
        => LET elems == Tabulated(fn_arg).elems
               df == fn_ret.df
           IN /\ fn_ret.st_errors = 0
              /\ DFLen(df) = Len(elems)
              /\ ColSet(df) = UNION {KeySet(FlatOf(elems[i])) : i \in DOMAIN elems}
              /\ Len(df.cols) = Cardinality(ColSet(df))
              /\ \A i \in DOMAIN elems : \A c \in ColSet(df) :
                    df.rows[i][c] = IF HasKey(FlatOf(elems[i]), c)
                                    THEN Get(FlatOf(elems[i]), c) ELSE NaN

C6_Witness ==
    /\ fn_pc = "done"
    /\ IsList(Tabulated(fn_arg)) /\ AllDicts(Tabulated(fn_arg))
    /\ Len(Tabulated(fn_arg).elems) = 2
    /\ KeySet(FlatOf(Tabulated(fn_arg).elems[1])) # KeySet(FlatOf(Tabulated(fn_arg).elems[2]))
    /\ \E c \in ColSet(fn_ret.df) : fn_ret.df.rows[1][c] = NaN

\* C15 (as stated): convert_df_to_json gives one object per row, in row order, and
\* the keys of a row's object are exactly the columns the row has a value for.
OneObjectPerRow(df, json) ==
    /\ IsList(json)
    /\ Len(json.elems) = DFLen(df)
    /\ \A i \in DOMAIN json.elems : IsDict(json.elems[i])

C15_Original ==
    fn_pc = "json"
        => /\ OneObjectPerRow(fn_ret.df, fn_ret.json)
           /\ \A i \in DOMAIN fn_ret.json.elems :
                 KeySet(fn_ret.json.elems[i])
                    = {c \in ColSet(fn_ret.df) : fn_ret.df.rows[i][c] # NaN}

\* C15 (amended): convert_df_to_json gives one object per row, in row order, and
\* the keys of every object are exactly the table's columns; a column the row has
\* no value for is a key whose value is null.
C15_EveryColumnInEveryObject ==
    fn_pc = "json"
        => /\ OneObjectPerRow(fn_ret.df, fn_ret.json)
           /\ \A i \in DOMAIN fn_ret.json.elems :
                 /\ Keys(fn_ret.json.elems[i]) = fn_ret.df.cols
                 /\ \A c \in ColSet(fn_ret.df) :
                       Get(fn_ret.json.elems[i], c)
                          = IF fn_ret.df.rows[i][c] = NaN THEN None
                            ELSE fn_ret.df.rows[i][c]

C15_Witness ==
    /\ fn_pc = "json"
    /\ DFLen(fn_ret.df) = 2
    /\ \E c \in ColSet(fn_ret.df) :
          /\ fn_ret.df.rows[1][c] = NaN
          /\ Get(fn_ret.json.elems[1], c) = None
          /\ fn_ret.df.rows[2][c] # NaN

---------------------------------------------------------------------------
(* Claims about the session, checked under Spec *)

GatewayFailed(l) == l.kind = "extract" /\ l.gateway \in {"upload_failed", "run_failed"}

\* C7: when the upload or the processor run fails, extract_passport_data returns
\* None and reports exactly one error, and the extract action tabulates, exports
\* and saves nothing: history, current_extraction and the temporary files are as
\* they were before the click.
C7_FailedExtractionChangesNothing ==
    [][GatewayFailed(last')
        => /\ last'.result = None
           /\ last'.st_errors = 1
           /\ ~last'.tabulated /\ ~last'.exported /\ ~last'.appended
           /\ extraction_history' = extraction_history
           /\ current_extraction' = current_extraction
           /\ temp_files' = temp_files
           /\ page' = page]_vars

C7_Witness ==
    /\ GatewayFailed(last)
    /\ last.gateway = "run_failed"
    /\ last.result = None
    /\ extraction_history # <<>>
    /\ current_extraction # None

\* C8 (as stated): a history entry is created only after a tabulation that
\* succeeded, so no entry of extraction_history holds the one-column error table.
\* (No gateway value of the model has a key named `error`.)
IsErrorTable(df) == df.cols = <<"error">> /\ DFLen(df) = 1

C8_NoErrorTableInHistory ==
    /\ \A i \in DOMAIN extraction_history : ~IsErrorTable(extraction_history[i].data)
    /\ (last.kind = "extract" /\ last.appended) => ~last.format_failed

\* C9 (as stated): once the extract action has ended, on whatever path, no
\* temporary file it created exists.
C9_TempFileDeleted == temp_files = {}

\* C10: extraction_history is exactly what was saved since the last clear, in the
\* order saved, and it is empty right after a clear.
C10_HistoryIsSavedSinceClear ==
    /\ Len(extraction_history) = Len(saved)
    /\ \A i \in DOMAIN extraction_history :
          /\ extraction_history[i].filename = saved[i].filename
          /\ extraction_history[i].data = saved[i].data
    /\ last.kind = "clear" => extraction_history = <<>>

C10_Witness ==
    /\ Len(extraction_history) >= 2
    /\ extraction_history[1] # extraction_history[2]
    /\ extraction_history[2].data = current_extraction

\* C11: every history entry holds the file name and the table it was saved with and
\* the number of rows of that table, and no step changes an entry that stays in the
\* history: a later extraction only adds an entry after it, a navigation changes
\* nothing.
EntryAsSaved(entry, call) ==
    /\ entry.filename = call.filename
    /\ entry.data = call.data
    /\ entry.record_count = Len(call.data.rows)

C11_EntriesNeverChange ==
    [][/\ \A i \in DOMAIN extraction_history' :
             EntryAsSaved(extraction_history'[i], saved'[i])
       /\ \A i \in DOMAIN extraction_history :
             i \in DOMAIN extraction_history'
                => extraction_history'[i] = extraction_history[i]
       /\ last'.kind = "navigate" => extraction_history' = extraction_history]_vars

C11_Witness ==
    /\ Len(extraction_history) = 2
    /\ extraction_history[1].filename # extraction_history[2].filename
    /\ extraction_history[1].record_count = 2
    /\ extraction_history[2].record_count = 1
    /\ Len(extraction_history[2].data.cols) = 2
    /\ last.kind = "navigate"

---------------------------------------------------------------------------
(* Claims about _flatten_nested_dict, checked under FlatSpec *)

NonEmptyDict(v) == IsDict(v) /\ v.items # <<>>
NonEmptyList(v) == IsList(v) /\ v.elems # <<>>

\* the leaves of a mapping, in iteration order, each with the compound key of its
\* path: a leaf is any value that is not a non-empty mapping
RECURSIVE LeafPaths(_, _)
LeafPaths(kvs, prefix) ==
    IF kvs = <<>> THEN <<>>
    ELSE LET key == IF prefix = "" THEN Head(kvs).k ELSE prefix \o "_" \o Head(kvs).k
             v == Head(kvs).v
         IN (IF NonEmptyDict(v) THEN LeafPaths(v.items, key)
             ELSE <<[key |-> key, v |-> v]>>)
            \o LeafPaths(Tail(kvs), prefix)

\* C12: no value of the flattened mapping is a non-empty mapping or a non-empty
\* list: a value is a scalar, None, a string, or an empty mapping or an empty list
\* kept as it was.
C12_NoNestedValues ==
    fn_pc = "flattened"
        => /\ ~fn_ret.raised
           /\ \A i \in DOMAIN fn_ret.val.items :
                 LET v == fn_ret.val.items[i].v
                 IN ~NonEmptyDict(v) /\ ~NonEmptyList(v)

C12_Witness ==
    /\ fn_pc = "flattened"
    /\ \E j \in DOMAIN fn_arg.items :
          /\ NonEmptyDict(fn_arg.items[j].v)
          /\ \E m \in DOMAIN fn_arg.items[j].v.items :
                NonEmptyDict(fn_arg.items[j].v.items[m].v)
    /\ \E j \in DOMAIN fn_arg.items : NonEmptyList(fn_arg.items[j].v)
    /\ Len(fn_ret.val.items) = 2

\* C13: for a mapping with no nested mapping, flattening the flattened mapping
\* gives the flattened mapping again.
NoNestedMapping(x) == \A i \in DOMAIN x.items : ~NonEmptyDict(x.items[i].v)

C13_FlattenIdempotent ==
    (fn_pc = "reflattened" /\ NoNestedMapping(fn_arg))
        => ~fn_ret.raised /\ fn_ret.val = fn_ret.first

C13_Witness ==
    /\ fn_pc = "reflattened"
    /\ NoNestedMapping(fn_arg)
    /\ \E i \in DOMAIN fn_arg.items : NonEmptyList(fn_arg.items[i].v)
    /\ \E i \in DOMAIN fn_arg.items : fn_arg.items[i].v = Dict(<<>>)
    /\ fn_ret.val = fn_ret.first
    /\ fn_ret.val # fn_arg

\* C14 (as stated): under the compound key of every leaf the output holds the
\* elements joined by "; " for a non-empty list of strings, the text of the list
\* for any other non-empty list, and the value unchanged otherwise.
ExpectedLeaf(v) ==
    IF NonEmptyList(v)
    THEN IF \A i \in DOMAIN v.elems : IsStr(v.elems[i])
         THEN Str(JoinStrs([i \in DOMAIN v.elems |-> v.elems[i].s], "; "))
         ELSE Str(PyStr(v))
    ELSE v

C14_LeafValues ==
    fn_pc = "flattened"
        => LET leaves == LeafPaths(fn_arg.items, "")
           IN /\ ExpectedLeaf(List(<<Str("John"), Str("William")>>)) = Str("John; William")
              /\ ExpectedLeaf(List(<<Str("John"), Num(1)>>)) = Str("['John', 1]")
              /\ \A i \in DOMAIN leaves :
                    /\ HasKey(fn_ret.val, leaves[i].key)
                    /\ Get(fn_ret.val, leaves[i].key) = ExpectedLeaf(leaves[i].v)

\* C19 (as stated): distinct leaves of the input give distinct keys of the output,
\* so the output has as many entries as the input has leaves.
C19_NoLeafLost ==
    fn_pc = "flattened"
        => LET leaves == LeafPaths(fn_arg.items, "")
           IN /\ Len(fn_ret.val.items) = Len(leaves)
              /\ \A i, j \in DOMAIN leaves : i # j => leaves[i].key # leaves[j].key

---------------------------------------------------------------------------
(* Claims about the gateway calls of one extraction, checked under Spec *)

GatewayCalled == last.kind = "extract" /\ last.gateway # "not_called"

RunCalls == {i \in DOMAIN last.calls : last.calls[i].op = "run"}

\* C16: in every run of extract_passport_data the upload comes before the
\* processor run, the processor run is invoked at most once and only with the
\* file id that upload returned, a failed upload means no processor run, and
\* when the run gives an output the function returns that output's value.
C16_UploadThenRunOnce ==
    GatewayCalled
        => /\ last.calls # <<>>
           /\ last.calls[1].op = "upload"
           /\ Cardinality(RunCalls) <= 1
           /\ \A i \in RunCalls :
                 /\ i > 1
                 /\ last.upload.ok
                 /\ last.calls[i].file_id = last.upload.id
           /\ ~last.upload.ok => RunCalls = {}
           /\ (last.upload.ok /\ last.run.kind = "output")
                 => last.result = last.run.value

C16_Witness ==
    /\ GatewayCalled
    /\ last.upload.ok
    /\ last.upload.id = "file_2"
    /\ last.run.kind = "output"
    /\ RunCalls = {2}
    /\ last.calls[2].file_id = "file_2"
    /\ last.result = last.run.value
    /\ IsDict(last.result) /\ last.result.items # <<>>

\* C17: every extract action whose gateway call returns a result without
\* failing, an empty mapping or an empty list included, passes the result to
\* format_extraction_data and appends exactly one entry to extraction_history.
C17_EverySuccessAppends ==
    [][(last'.kind = "extract" /\ last'.gateway = "returned")
          => /\ last'.tabulated
             /\ Len(extraction_history') = Len(extraction_history) + 1
             /\ extraction_history' # extraction_history]_vars

\* C18: whenever extraction_history is not empty, current_extraction is not None
\* and is the table of the last history entry; Clear History empties the history
\* and leaves current_extraction as it was, so current_extraction may be a table
\* while the history is empty, but is never None while the history is not.
CurrentIsLastEntry ==
    extraction_history # <<>>
        => /\ current_extraction # None
           /\ current_extraction = extraction_history[Len(extraction_history)].data

C18_CurrentFollowsHistory ==
    /\ []CurrentIsLastEntry
    /\ [][last'.kind = "clear"
             => /\ extraction_history # <<>>
                /\ extraction_history' = <<>>
                /\ current_extraction' = current_extraction]_vars

C18_Witness ==
    /\ last.kind = "clear"
    /\ extraction_history = <<>>
    /\ current_extraction # None
    /\ DFLen(current_extraction) = 2

===========================================================================
